---- MODULE Spec2Model ----
(***************************************************************************)
(* Model of the NASA IMERG precipitation engine (nasa-precip-engine/src):  *)
(* the cube cache (cache.py), the Earthdata client (imerg_client.py) and   *)
(* the request handler (main.py).                                          *)
(*                                                                         *)
(* Time is counted in whole clock units; the configuration values          *)
(* CACHE_MAX_SIZE (50 in config.py) and CACHE_TTL_SECONDS (1800) are       *)
(* scaled down so that a full cache and an expired entry are reachable.    *)
(***************************************************************************)
EXTENDS Integers, Sequences, FiniteSets, TLC

\* ---- bounds ----------------------------------------------------------
CACHE_MAX_SIZE == 2
CACHE_TTL_SECONDS == 1
MaxTime == 2
MaxLogins == 2
MaxCells == 3

\* ---- value domains ---------------------------------------------------
\* A datetime is a calendar day and a time of day; two of the reference
\* times share a calendar day.
DateTimes == {[day |-> "2024-03-15", hour |-> 0],
              [day |-> "2024-03-15", hour |-> 12],
              [day |-> "2024-03-16", hour |-> 0]}
Windows == {24, 72}
IMERG_LATE == "IMERG-Late"
IMERG_EARLY == "IMERG-Early"
Sources == {IMERG_LATE, IMERG_EARLY}
None == [kind |-> "None"]
\* A DataArray [lat, lon] is the amount at each grid point, in tenths of a
\* millimetre; the grid has two points.
Coords == {"p1", "p2"}
\* The cubes handed to the cache: one accumulated from the Late run and one
\* from the Early run.
Payloads == {[data |-> [c \in Coords |-> 0], source |-> IMERG_LATE],
             [data |-> [c \in Coords |-> IF c = "p1" THEN 3 ELSE 0], source |-> IMERG_EARLY]}

\* The cube accumulated for a reference time: the archive had Late run
\* granules for the reference times at midnight and Early run granules only
\* for the other one
CubeFor(t_ref) ==
    CHOOSE p \in Payloads : p.source = IMERG_LATE <=> t_ref.hour = 0

\* config.py: the product short names of the two tiers
IMERG_PRODUCT_LATE == "GPM_3IMERGHH"
IMERG_PRODUCT_EARLY == "GPM_3IMERGHHE"

\* What earthaccess.login can do: return an authenticated session, return
\* a session that is not authenticated, or raise.
LoginOutcomes == {"authenticated", "not_authenticated", "raises"}

\* A granule of a product: whether xr.open_dataset can read it, the
\* precipitation variable it carries and its rate: the value (mm/hr) at each
\* point, and the points where the value is missing (NaN).
Granule(product, readable, var, rate) ==
    [product |-> product, readable |-> readable, var |-> var, rate |-> rate]
RateA == [v |-> [c \in Coords |-> IF c = "p1" THEN 2 ELSE 0], nan |-> {}]
RateB == [v |-> [c \in Coords |-> IF c = "p1" THEN 4 ELSE 1], nan |-> {}]
RateGaps == [v |-> [c \in Coords |-> 0], nan |-> {"p1"}]
RateNegative == [v |-> [c \in Coords |-> IF c = "p1" THEN 0 - 3 ELSE 0], nan |-> {}]
gCal(product) == Granule(product, TRUE, "precipitationCal", RateA)
gUncal(product) == Granule(product, TRUE, "precipitation", RateB)
gNoVar(product) == Granule(product, TRUE, "none", RateA)
gUnreadable(product) == Granule(product, FALSE, "precipitationCal", RateA)
gNegative(product) == Granule(product, TRUE, "precipitationCal", RateNegative)
gGaps(product) == Granule(product, TRUE, "precipitationCal", RateGaps)

\* What earthaccess.search_data can do: raise, or return a list of granules
\* of the product searched.
Found(gs) == [raises |-> FALSE, granules |-> gs]
SearchFails == [raises |-> TRUE, granules |-> << >>]
LateOutcomes ==
    {SearchFails, Found(<< >>),
     Found(<<gCal(IMERG_PRODUCT_LATE), gUncal(IMERG_PRODUCT_LATE)>>),
     Found(<<gUnreadable(IMERG_PRODUCT_LATE), gCal(IMERG_PRODUCT_LATE)>>),
     Found(<<gUnreadable(IMERG_PRODUCT_LATE)>>),
     Found(<<gNoVar(IMERG_PRODUCT_LATE)>>),
     Found(<<gNoVar(IMERG_PRODUCT_LATE), gUncal(IMERG_PRODUCT_LATE)>>),
     Found(<<gGaps(IMERG_PRODUCT_LATE), gCal(IMERG_PRODUCT_LATE)>>),
     Found(<<gNegative(IMERG_PRODUCT_LATE), gCal(IMERG_PRODUCT_LATE)>>)}
EarlyOutcomes ==
    {SearchFails, Found(<< >>),
     Found(<<gUncal(IMERG_PRODUCT_EARLY)>>),
     Found(<<gNoVar(IMERG_PRODUCT_EARLY)>>)}

\* The remote archive as one call of load_imerg_cube meets it
Envs ==
    [login : LoginOutcomes,
     late : LateOutcomes,
     early : EarlyOutcomes,
     open_returns_files : BOOLEAN,
     concat_raises : BOOLEAN]

\* A burst of concurrent requests, numbered in the order of their arrival:
\* all have been received before the handler of any of them starts
Requests == {1, 2, 3}

\* H3 indices: three cells, the centroid of one of them outside the
\* rectangle the grid covers, and a string that is not a valid H3 index
H3Indices == {"cellA", "cellB", "cellOut", "bad"}

\* the lists of at most MaxCells indices
H3Lists == UNION {[1 .. n -> H3Indices] : n \in 0 .. MaxCells}

\* The points asked of a grid: its two points and one outside its rectangle
Points == Coords \cup {"out"}

\* The grids handed to the sampler: all zero, positive, with a negative
\* value, and a grid without any point (an empty lat/lon selection)
EmptyGrid == << >>
SampleGrids == {[c \in Coords |-> 0],
                [c \in Coords |-> IF c = "p1" THEN 30 ELSE 5],
                [c \in Coords |-> IF c = "p1" THEN 0 - 5 ELSE 0],
                EmptyGrid}

\* The h3_indices lists of a request; "bad" is not a valid H3 index
CellLists == {<<"bad">>, <<"cellA", "bad", "cellB">>}

\* The two ways earthaccess.login ends for the request handler: it returns
\* (authenticate() sets the flag whatever session came back) or it raises
ServerLoginOutcomes == {"authenticated", "raises"}

\* The remote archive as the request handler meets it
ServerLateOutcomes ==
    {SearchFails, Found(<< >>),
     Found(<<gCal(IMERG_PRODUCT_LATE), gUncal(IMERG_PRODUCT_LATE)>>)}
ServerEarlyOutcomes ==
    {Found(<< >>), Found(<<gUncal(IMERG_PRODUCT_EARLY)>>)}
ServerEnvs ==
    [late : ServerLateOutcomes, early : ServerEarlyOutcomes,
     open_returns_files : {TRUE}, concat_raises : {FALSE}]

VARIABLES
    PRECIP_CACHE,       \* cache.py: the module-level dict, in insertion order
    now,                \* the wall clock read by time.time()
    auth_initialized,   \* imerg_client.py: _auth_initialized
    logins,             \* the outcomes of the earthaccess.login calls made so far
    auth_returned,      \* some call of authenticate() has returned normally
    req,                \* main.py: each request's position in the handler and its locals
    running,            \* the request whose handler the event loop is executing
    misses,             \* the cache keys on which a lookup of a handler has missed
    last                \* the operation performed last, its arguments and result

vars == <<PRECIP_CACHE, now, auth_initialized, logins, auth_returned, req, running,
          misses, last>>
cacheVars == <<PRECIP_CACHE, now>>
authVars == <<auth_initialized, logins, auth_returned>>
serverVars == <<req, running, misses>>

Range(seq) == {seq[i] : i \in DOMAIN seq}

\* ---- cache.py --------------------------------------------------------
\* variant: the format keeps the time of day ('%Y-%m-%d %H')
strftime_date_WithHour(t_ref) == <<t_ref.day, t_ref.hour>>

\* t_ref.strftime('%Y-%m-%d'): the calendar day of the datetime
strftime_date(t_ref) == t_ref.day

get_cache_key(t_ref, hours) == <<strftime_date(t_ref), hours>>

PrecipCube(data, t_ref, hours, cached_at, source) ==
    [data |-> data, t_ref |-> t_ref, hours |-> hours,
     cached_at |-> cached_at, source |-> source]

\* variant: an entry expires as soon as its age reaches the TTL
is_expired_AtTTL(cube, time) == (time - cube.cached_at) >= CACHE_TTL_SECONDS

is_expired(cube, time) == (time - cube.cached_at) > CACHE_TTL_SECONDS

\* Python dict operations on a dict kept as the sequence of its items
DictKeys(d) == {d[i].key : i \in DOMAIN d}
DictHas(d, k) == \E i \in DOMAIN d : d[i].key = k
DictIndex(d, k) == CHOOSE i \in DOMAIN d : d[i].key = k
DictGet(d, k) == d[DictIndex(d, k)].cube
DictDel(d, k) == SelectSeq(d, LAMBDA e : e.key # k)
\* variant: dict.setdefault, an item already present is kept
DictSet_KeepExisting(d, k, v) ==
    IF \E i \in DOMAIN d : d[i].key = k THEN d ELSE Append(d, [key |-> k, cube |-> v])

DictSet(d, k, v) ==
    IF DictHas(d, k)
    THEN [d EXCEPT ![DictIndex(d, k)] = [key |-> k, cube |-> v]]
    ELSE Append(d, [key |-> k, cube |-> v])

\* variant: max() in place of min(), the newest entry is chosen
oldest_key_Newest(d) ==
    LET i == CHOOSE i \in DOMAIN d :
                 /\ \A j \in DOMAIN d : d[i].cube.cached_at >= d[j].cube.cached_at
                 /\ \A j \in 1 .. (i - 1) : d[j].cube.cached_at < d[i].cube.cached_at
    IN  d[i].key

\* min(PRECIP_CACHE.keys(), key=lambda k: PRECIP_CACHE[k].cached_at):
\* the first key, in iteration order, whose cached_at is minimal
oldest_key(d) ==
    LET i == CHOOSE i \in DOMAIN d :
                 /\ \A j \in DOMAIN d : d[i].cube.cached_at <= d[j].cube.cached_at
                 /\ \A j \in 1 .. (i - 1) : d[j].cube.cached_at > d[i].cube.cached_at
    IN  d[i].key

\* variant: a lookup that finds its entry expired sweeps every expired
\* entry out of the dict
get_cached_cube_Sweep(d, time, t_ref, hours) ==
    LET key == get_cache_key(t_ref, hours) IN
    IF ~DictHas(d, key)
    THEN [ret |-> None, cache |-> d]
    ELSE IF is_expired(DictGet(d, key), time)
         THEN [ret |-> None,
               cache |-> SelectSeq(d, LAMBDA e : ~is_expired(e.cube, time))]
         ELSE [ret |-> DictGet(d, key), cache |-> d]

\* variant: a lookup that returns an entry refreshes its cached_at
get_cached_cube_Touch(d, time, t_ref, hours) ==
    LET key == get_cache_key(t_ref, hours) IN
    IF ~DictHas(d, key)
    THEN [ret |-> None, cache |-> d]
    ELSE IF is_expired(DictGet(d, key), time)
         THEN [ret |-> None, cache |-> DictDel(d, key)]
         ELSE [ret |-> DictGet(d, key),
               cache |-> [d EXCEPT ![DictIndex(d, key)].cube.cached_at = time]]

\* get_cached_cube: the value returned and the dict left behind
get_cached_cube(d, time, t_ref, hours) ==
    LET key == get_cache_key(t_ref, hours) IN
    IF ~DictHas(d, key)
    THEN [ret |-> None, cache |-> d]
    ELSE IF is_expired(DictGet(d, key), time)
         THEN [ret |-> None, cache |-> DictDel(d, key)]
         ELSE [ret |-> DictGet(d, key), cache |-> d]

\* variant: the test is len(PRECIP_CACHE) > CACHE_MAX_SIZE
CacheIsFull_OffByOne(d) == Len(d) > CACHE_MAX_SIZE

\* len(PRECIP_CACHE) >= CACHE_MAX_SIZE
CacheIsFull(d) == Len(d) >= CACHE_MAX_SIZE

\* the key set_cached_cube deletes before it inserts, if any
evicted_key(d) == IF CacheIsFull(d) THEN <<oldest_key(d)>> ELSE << >>

set_cached_cube(d, time, t_ref, hours, data, source) ==
    LET key == get_cache_key(t_ref, hours)
        d1 == IF CacheIsFull(d) THEN DictDel(d, oldest_key(d)) ELSE d
    IN  DictSet(d1, key, PrecipCube(data, t_ref, hours, time, source))

clear_cache(d) == << >>

get_cache_stats(d, time) ==
    LET total == Len(d)
        expired == Cardinality({i \in DOMAIN d : is_expired(d[i].cube, time)})
    IN  [total_entries |-> total, expired_entries |-> expired,
         valid_entries |-> total - expired, max_size |-> CACHE_MAX_SIZE,
         ttl_seconds |-> CACHE_TTL_SECONDS]

\* ---- imerg_client.py -------------------------------------------------
Exception(type, msg) == [type |-> type, msg |-> msg]

\* variant: the flag is not consulted, every call logs in
authenticate_NoGuard(flag, outcome) ==
    IF outcome = "raises"
    THEN [flag |-> flag, login |-> <<outcome>>, exc |-> Exception("LoginError", <<"login failed">>)]
    ELSE [flag |-> TRUE, login |-> <<outcome>>, exc |-> None]

\* authenticate(): the flag left behind, the login call made (if any) and
\* the exception raised (if any)
authenticate(flag, outcome) ==
    IF flag
    THEN [flag |-> flag, login |-> << >>, exc |-> None]
    ELSE IF outcome = "raises"
         THEN [flag |-> flag, login |-> <<outcome>>,
               exc |-> Exception("LoginError", <<"login failed">>)]
         ELSE [flag |-> TRUE, login |-> <<outcome>>, exc |-> None]

\* ds["precipitationCal"], else ds["precipitation"], else the granule is skipped
has_precip_variable(ds) == ds.var \in {"precipitationCal", "precipitation"}

\* variant: the rate is taken as the amount, the factor 0.5 is left out
precip_amount_Rate(ds) ==
    [v |-> [c \in Coords |-> ds.rate.v[c] * 10], nan |-> ds.rate.nan]

\* precip_rate_subset * 0.5: mm/hr over half an hour, in tenths of a mm
\* (rate * 0.5 * 10); a missing rate is a missing amount
precip_amount(ds) ==
    [v |-> [c \in Coords |-> ds.rate.v[c] * 5], nan |-> ds.rate.nan]

RECURSIVE sum_arrays(_)
sum_arrays(arrays) ==
    IF arrays = << >>
    THEN [c \in Coords |-> 0]
    ELSE LET rest == sum_arrays(Tail(arrays)) IN
         [c \in Coords |-> Head(arrays)[c] + rest[c]]

\* xr.concat(precip_arrays, dim='time').sum(dim='time'): the sum over time
\* skips the missing values
concat_sum(arrays) ==
    [v |-> sum_arrays([i \in DOMAIN arrays |->
                         [c \in Coords |-> IF c \in arrays[i].nan THEN 0
                                           ELSE arrays[i].v[c]]]),
     nan |-> {}]

\* sum(precip_arrays), the builtin: 0 + a1 + a2 + ..., where a value
\* missing in one array is missing in the total
builtin_sum(arrays) ==
    [v |-> sum_arrays([i \in DOMAIN arrays |-> arrays[i].v]),
     nan |-> UNION {arrays[i].nan : i \in DOMAIN arrays}]

\* precip_total.fillna(0.0)
fillna(array) == [c \in Coords |-> IF c \in array.nan THEN 0 ELSE array.v[c]]

\* accumulate_precip(datasets, hours); concat_raises: xr.concat rejects the
\* arrays and the except branch sums them
accumulate_precip(datasets, concat_raises) ==
    IF datasets = << >>
    THEN [exc |-> Exception("ValueError", <<"No datasets provided for accumulation">>)]
    ELSE LET kept == SelectSeq(datasets, has_precip_variable)
             precip_arrays == [i \in DOMAIN kept |-> precip_amount(kept[i])]
             precip_total == IF concat_raises THEN builtin_sum(precip_arrays)
                             ELSE concat_sum(precip_arrays)
         IN  IF precip_arrays = << >>
             THEN [exc |-> Exception("ValueError",
                              <<"No valid precipitation data extracted from granules">>)]
             ELSE [exc |-> None, data |-> fillna(precip_total)]

\* variant: the try/except around xr.open_dataset is missing, one file
\* that cannot be read fails the whole list
open_datasets_Strict(files) ==
    IF \A i \in DOMAIN files : files[i].readable THEN files ELSE << >>

\* for f in files: try: datasets.append(xr.open_dataset(f)) except: warning
open_datasets(files) == SelectSeq(files, LAMBDA f : f.readable)

\* earthaccess.search_data(short_name=product, ...)
search_data(env, product) ==
    IF product = IMERG_PRODUCT_LATE THEN env.late ELSE env.early

\* variant: the Early Run is searched whatever use_early says
should_try_early_Always(results, use_early) == Len(results) = 0

\* len(results) == 0 and use_early
should_try_early(results, use_early) == Len(results) = 0 /\ use_early

\* variant: source_name keeps its first value
source_after_fallback_Late(product) == IMERG_LATE

\* the source_name that goes with the product searched last
source_after_fallback(product) ==
    IF product = IMERG_PRODUCT_EARLY THEN IMERG_EARLY ELSE IMERG_LATE

\* except Exception as e: raise RuntimeError(f"Failed to load IMERG data: {e}")
wrap_error(e) == Exception("RuntimeError", <<"Failed to load IMERG data">> \o e.msg)

\* the body of the try block of load_imerg_cube: the searches made, the
\* granules handed to earthaccess.open and the outcome
load_body(env, use_early) ==
    LET late == search_data(env, IMERG_PRODUCT_LATE) IN
    IF late.raises
    THEN [searches |-> <<IMERG_PRODUCT_LATE>>, opened |-> << >>,
          exc |-> Exception("SearchError", <<"search failed">>)]
    ELSE
    LET try_early == should_try_early(late.granules, use_early)
        early == IF try_early THEN search_data(env, IMERG_PRODUCT_EARLY)
                 ELSE [raises |-> FALSE, granules |-> << >>]
        searches == IF try_early THEN <<IMERG_PRODUCT_LATE, IMERG_PRODUCT_EARLY>>
                    ELSE <<IMERG_PRODUCT_LATE>>
        product == IF try_early THEN IMERG_PRODUCT_EARLY ELSE IMERG_PRODUCT_LATE
        results == IF try_early THEN early.granules ELSE late.granules
    IN
    IF early.raises
    THEN [searches |-> searches, opened |-> << >>,
          exc |-> Exception("SearchError", <<"search failed">>)]
    ELSE IF Len(results) = 0
    THEN [searches |-> searches, opened |-> << >>,
          exc |-> Exception("ValueError", <<"No IMERG data available for time window">>)]
    ELSE
    LET files == IF env.open_returns_files THEN results ELSE << >>
        datasets == open_datasets(files)
        acc == accumulate_precip(datasets, env.concat_raises)
    IN
    IF files = << >>
    THEN [searches |-> searches, opened |-> results,
          exc |-> Exception("RuntimeError", <<"Failed to open IMERG granules">>)]
    ELSE IF datasets = << >>
    THEN [searches |-> searches, opened |-> results,
          exc |-> Exception("RuntimeError",
                            <<"Failed to open any granules as xarray Datasets">>)]
    ELSE IF acc.exc # None
    THEN [searches |-> searches, opened |-> results, exc |-> acc.exc]
    ELSE [searches |-> searches, opened |-> results, exc |-> None,
          data |-> acc.data, source |-> source_after_fallback(product)]

\* load_imerg_cube(t_ref, hours, use_early): authenticate(), then the try
\* block, whose exceptions are all re-raised as RuntimeError
load_imerg_cube(flag, env, use_early) ==
    LET a == authenticate(flag, env.login) IN
    IF a.exc # None
    THEN [flag |-> a.flag, login |-> a.login, searches |-> << >>, opened |-> << >>,
          exc |-> a.exc]
    ELSE LET b == load_body(env, use_early) IN
         IF b.exc # None
         THEN [flag |-> a.flag, login |-> a.login, searches |-> b.searches,
               opened |-> b.opened, exc |-> wrap_error(b.exc)]
         ELSE [flag |-> a.flag, login |-> a.login, searches |-> b.searches,
               opened |-> b.opened, exc |-> None,
               data |-> b.data, source |-> b.source]

\* precip_data.sel(lat=lat, lon=lon, method='nearest'): the grid point
\* nearest to the point asked for, which for a point outside the rectangle
\* is a point of its edge
sel_nearest(point) == IF point = "out" THEN "p2" ELSE point

\* variant: the value of the grid is returned as it is
get_precip_at_point_NoClamp(data, point) ==
    IF DOMAIN data = {} THEN 0
    ELSE data[sel_nearest(point)]

\* get_precip_at_point: max(0.0, value at the nearest grid point); on a
\* grid without points the selection raises KeyError and 0.0 is returned
get_precip_at_point(data, point) ==
    IF DOMAIN data = {} THEN 0
    ELSE LET value == data[sel_nearest(point)] IN
         IF value < 0 THEN 0 ELSE value

\* ---- initial state ---------------------------------------------------
Init ==
    /\ PRECIP_CACHE = << >>
    /\ now = 0
    /\ auth_initialized = FALSE
    /\ logins = << >>
    /\ auth_returned = FALSE
    /\ req = [r \in Requests |-> [pc |-> "queued"]]
    /\ running = 0
    /\ misses = {}
    /\ last = [op |-> "init"]

\* ---- the cache operations, called in any order -----------------------
Tick ==
    /\ now < MaxTime
    /\ now' = now + 1
    /\ last' = [op |-> "tick"]
    /\ UNCHANGED <<PRECIP_CACHE, authVars, serverVars>>

GetCachedCube ==
    \E t_ref \in DateTimes, hours \in Windows :
        LET r == get_cached_cube(PRECIP_CACHE, now, t_ref, hours) IN
        /\ PRECIP_CACHE' = r.cache
        /\ last' = [op |-> "get", t_ref |-> t_ref, hours |-> hours, ret |-> r.ret,
                    had_key |-> DictHas(PRECIP_CACHE, get_cache_key(t_ref, hours)),
                    prev |-> IF last.op = "set" THEN last ELSE None]
        /\ UNCHANGED <<now, authVars, serverVars>>

SetCachedCube ==
    \E t_ref \in DateTimes, hours \in Windows :
        LET p == CubeFor(t_ref) IN
        /\ PRECIP_CACHE' = set_cached_cube(PRECIP_CACHE, now, t_ref, hours, p.data, p.source)
        /\ last' = [op |-> "set", t_ref |-> t_ref, hours |-> hours,
                    data |-> p.data, source |-> p.source,
                    had_key |-> DictHas(PRECIP_CACHE, get_cache_key(t_ref, hours)),
                    evicted |-> evicted_key(PRECIP_CACHE),
                    evicted_at |-> IF CacheIsFull(PRECIP_CACHE)
                                   THEN <<DictGet(PRECIP_CACHE,
                                                  oldest_key(PRECIP_CACHE)).cached_at>>
                                   ELSE << >>]
        /\ UNCHANGED <<now, authVars, serverVars>>

ClearCache ==
    /\ PRECIP_CACHE' = clear_cache(PRECIP_CACHE)
    /\ last' = [op |-> "clear"]
    /\ UNCHANGED <<now, authVars, serverVars>>

GetCacheStats ==
    /\ last' = [op |-> "stats", ret |-> get_cache_stats(PRECIP_CACHE, now)]
    /\ UNCHANGED <<PRECIP_CACHE, now, authVars, serverVars>>

Next ==
    \/ Tick
    \/ GetCachedCube
    \/ SetCachedCube
    \/ ClearCache
    \/ GetCacheStats

Spec == Init /\ [][Next]_vars

\* ---- the client operations, called in any order ----------------------
Authenticate ==
    \E outcome \in LoginOutcomes :
        LET a == authenticate(auth_initialized, outcome) IN
        /\ Len(logins \o a.login) <= MaxLogins
        /\ auth_initialized' = a.flag
        /\ logins' = logins \o a.login
        /\ auth_returned' = (auth_returned \/ a.exc = None)
        /\ last' = [op |-> "authenticate", login |-> a.login, exc |-> a.exc]
        /\ UNCHANGED <<cacheVars, serverVars>>

\* t_ref and hours only set the time range of the searches, which the
\* archive's answer (env) stands for
LoadImergCube ==
    \E use_early \in BOOLEAN, env \in Envs :
        LET r == load_imerg_cube(auth_initialized, env, use_early) IN
        \* answers of the archive that the call does not ask for are fixed
        /\ auth_initialized => env.login = "authenticated"
        /\ env.concat_raises => env.open_returns_files
        /\ Len(logins \o r.login) <= MaxLogins
        /\ auth_initialized' = r.flag
        /\ logins' = logins \o r.login
        /\ auth_returned' = (auth_returned \/ r.searches # << >>)
        /\ last' = [op |-> "load", use_early |-> use_early, late |-> env.late,
                    early |-> env.early, open_returns_files |-> env.open_returns_files,
                    concat_raises |-> env.concat_raises, result |-> r]
        /\ UNCHANGED <<cacheVars, serverVars>>

\* get_precip_at_point on the grid that the last load_imerg_cube returned
GetPrecipAtPoint ==
    \E point \in Points :
        LET data == IF last.op = "load" THEN last.result.data ELSE last.data IN
        /\ IF last.op = "load" THEN last.result.exc = None ELSE last.op = "point"
        /\ last' = [op |-> "point", data |-> data, point |-> point,
                    ret |-> get_precip_at_point(data, point)]
        /\ UNCHANGED <<cacheVars, authVars, serverVars>>

NextClient ==
    \/ Authenticate
    \/ LoadImergCube
    \/ GetPrecipAtPoint

SpecClient == Init /\ [][NextClient]_vars

\* ---- h3_mapping.py ---------------------------------------------------
\* h3.h3_is_valid(idx)
h3_is_valid(idx) == idx \in {"cellA", "cellB", "cellOut"}

\* h3.h3_to_geo(h3_index): the centroid of the cell; "out" is a point
\* outside the rectangle of the grid
h3_to_geo(idx) ==
    IF idx = "cellA" THEN "p1" ELSE IF idx = "cellB" THEN "p2" ELSE "out"

\* variant: the list is rejected as soon as one index is invalid
validate_h3_indices_RejectAny(h3_indices) ==
    IF h3_indices = << >> \/ \E i \in DOMAIN h3_indices : ~h3_is_valid(h3_indices[i])
    THEN [exc |-> Exception("ValueError", <<"No valid H3 indices provided">>)]
    ELSE [exc |-> None, valid |-> h3_indices]

\* variant: a list without a valid index is returned empty
validate_h3_indices_NoRaise(h3_indices) ==
    [exc |-> None, valid |-> SelectSeq(h3_indices, h3_is_valid)]

validate_h3_indices(h3_indices) ==
    LET valid_indices == SelectSeq(h3_indices, h3_is_valid) IN
    IF valid_indices = << >>
    THEN [exc |-> Exception("ValueError", <<"No valid H3 indices provided">>)]
    ELSE [exc |-> None, valid |-> valid_indices]

\* variant: "if precip_mm:" guards the assignment, a cell without rain gets
\* no entry
sample_precip_for_h3_SkipZero(data, h3_indices) ==
    [h \in {x \in Range(h3_indices) :
               h3_is_valid(x) /\ get_precip_at_point(data, h3_to_geo(x)) # 0} |->
        get_precip_at_point(data, h3_to_geo(h))]

\* sample_precip_for_h3: the dict {h3_index: precip_mm}; a cell whose
\* sampling raises (h3_to_geo on an invalid index) gets 0.0
sample_precip_for_h3(data, h3_indices) ==
    [h \in Range(h3_indices) |->
        IF h3_is_valid(h) THEN get_precip_at_point(data, h3_to_geo(h)) ELSE 0]

\* ---- the functions of h3_mapping.py, called on any list ----------------
ValidateH3Indices ==
    \E h3_indices \in H3Lists :
        /\ last' = [op |-> "validate", h3_indices |-> h3_indices,
                    ret |-> validate_h3_indices(h3_indices)]
        /\ UNCHANGED <<cacheVars, authVars, serverVars>>

\* the try of the loop body catches every Exception, so the call always
\* returns its dict: exc is what the caller sees raised
SamplePrecipForH3 ==
    \E precip_data \in SampleGrids, h3_indices \in H3Lists :
        /\ last' = [op |-> "sample", precip_data |-> precip_data,
                    h3_indices |-> h3_indices,
                    exc |-> None,
                    ret |-> sample_precip_for_h3(precip_data, h3_indices)]
        /\ UNCHANGED <<cacheVars, authVars, serverVars>>

NextH3 ==
    \/ ValidateH3Indices
    \/ SamplePrecipForH3

SpecH3 == Init /\ [][NextH3]_vars

\* ---- main.py: get_precipitation_for_h3 -------------------------------
\* Optional[float]: None is << >>, a value v is <<v>>
PrecipCell(h3_index) ==
    [h3_index |-> h3_index, rain24h_mm |-> << >>, rain72h_mm |-> << >>]

\* variant: both fields of the cell are assigned in either block
populate_BothWindows(cells, window, precip_map) ==
    [i \in DOMAIN cells |->
        LET v == IF cells[i].h3_index \in DOMAIN precip_map
                 THEN precip_map[cells[i].h3_index] ELSE 0
        IN  [cells[i] EXCEPT !.rain24h_mm = <<v>>, !.rain72h_mm = <<v>>]]

\* for cell in cells: cell.rain24h_mm = precip_24h_map.get(cell.h3_index, 0.0)
populate(cells, window, precip_map) ==
    [i \in DOMAIN cells |->
        LET v == IF cells[i].h3_index \in DOMAIN precip_map
                 THEN precip_map[cells[i].h3_index] ELSE 0
        IN  IF window = 24 THEN [cells[i] EXCEPT !.rain24h_mm = <<v>>]
            ELSE [cells[i] EXCEPT !.rain72h_mm = <<v>>]]

\* variant: the handler is declared def, the server runs it in a thread
\* pool and the handlers of two requests interleave
MayRun_ThreadPool(r) == TRUE

\* The handler is a coroutine (async def) that never awaits: once the event
\* loop has started it, it runs to its return before another handler runs.
MayRun(r) == running \in {0, r}

InFlightLogins == Cardinality({r \in Requests : req[r].pc = "login"})

\* the handler returns or raises: the response goes out
Finish(r, response) ==
    /\ req' = [req EXCEPT ![r] = [pc |-> "done"]]
    /\ running' = 0
    /\ last' = [op |-> "response", r |-> r] @@ response

HTTPException(status_code, detail) ==
    [status |-> status_code, detail |-> detail]

\* variant: data served from the cache is labelled "cached"
PrecipResponse_CachedLabel(cells, source, t_ref, cached) ==
    [status |-> 200, cells |-> cells,
     source |-> IF cached THEN "cached" ELSE source, t_ref |-> t_ref,
     cached |-> cached]

\* variant: cached is left at the default of the field, False
PrecipResponse_DefaultCached(cells, source, t_ref, cached) ==
    [status |-> 200, cells |-> cells, source |-> source, t_ref |-> t_ref,
     cached |-> FALSE]

PrecipResponse(cells, source, t_ref, cached) ==
    [status |-> 200, cells |-> cells, source |-> source, t_ref |-> t_ref,
     cached |-> cached]

\* lines 171-194: t_ref parsed, the indices validated, the cells initialised
Begin(r) ==
    \E t_ref \in DateTimes, hours_24 \in BOOLEAN, hours_72 \in BOOLEAN,
       h3_indices \in CellLists :
        LET v == validate_h3_indices(h3_indices)
            request == [h3_indices |-> h3_indices, hours_24 |-> hours_24,
                        hours_72 |-> hours_72]
        IN
        /\ req[r].pc = "queued"
        /\ \A earlier \in Requests : earlier < r => req[earlier].pc # "queued"
        /\ MayRun(r)
        /\ IF v.exc # None
           THEN Finish(r, HTTPException(400, v.exc.msg)
                             @@ [step |-> "validate", request |-> request, window |-> 0])
           ELSE LET cells == [i \in DOMAIN v.valid |-> PrecipCell(v.valid[i])] IN
                IF ~hours_24 /\ ~hours_72
                THEN Finish(r, PrecipResponse(cells, "unknown", t_ref, FALSE)
                                  @@ [step |-> "validate", request |-> request,
                                      window |-> 0, hits |-> {}])
                ELSE /\ running' = r
                     /\ req' = [req EXCEPT ![r] =
                           [pc |-> "lookup", request |-> request,
                            t_ref |-> t_ref, hours_72 |-> hours_72,
                            window |-> IF hours_24 THEN 24 ELSE 72,
                            valid_h3 |-> v.valid, cells |-> cells,
                            source_name |-> "unknown", cached |-> FALSE,
                            hits |-> {}]]
                     /\ last' = [op |-> "begin", r |-> r]
        /\ UNCHANGED <<cacheVars, authVars, misses>>

\* the window's cube is at hand: sample it, fill the cells, and go on to
\* the 72h window or return the response; hits records the windows whose
\* cube came from the cache
WindowDone(r, data, source_name, cached, op) ==
    LET q == req[r]
        precip_map == sample_precip_for_h3(data, q.valid_h3)
        cells == populate(q.cells, q.window, precip_map)
        hits == IF op.step = "hit" THEN q.hits \cup {q.window} ELSE q.hits
    IN  IF q.window = 24 /\ q.hours_72
        THEN /\ req' = [req EXCEPT ![r] =
                   [pc |-> "lookup", request |-> q.request,
                    t_ref |-> q.t_ref, hours_72 |-> q.hours_72,
                    window |-> 72, valid_h3 |-> q.valid_h3, cells |-> cells,
                    source_name |-> source_name, cached |-> cached,
                    hits |-> hits]]
             /\ last' = [op |-> "window", r |-> r] @@ op
             /\ UNCHANGED running
        ELSE Finish(r, PrecipResponse(cells, source_name, q.t_ref, cached) @@ op
                          @@ [request |-> q.request, hits |-> hits])

\* get_cached_cube(t_ref, window); on a hit the cached cube is sampled, on a
\* miss load_imerg_cube is entered and authenticate() tests the flag
Lookup(r) ==
    LET q == req[r]
        g == get_cached_cube(PRECIP_CACHE, now, q.t_ref, q.window)
    IN
    /\ q.pc = "lookup"
    /\ MayRun(r)
    /\ PRECIP_CACHE' = g.cache
    /\ IF g.ret # None
       THEN /\ WindowDone(r, g.ret.data, g.ret.source, TRUE,
                          [step |-> "hit", window |-> q.window])
            /\ UNCHANGED <<now, authVars, misses>>
       ELSE /\ auth_initialized \/ Len(logins) + InFlightLogins < MaxLogins
            /\ misses' = misses \cup {get_cache_key(q.t_ref, q.window)}
            /\ req' = [req EXCEPT ![r] =
                         [pc |-> IF auth_initialized THEN "fetch" ELSE "login",
                          repeat |-> get_cache_key(q.t_ref, q.window) \in misses] @@ q]
            /\ last' = [op |-> "miss", r |-> r, exchange |-> ~auth_initialized]
            /\ UNCHANGED <<now, authVars, running>>

\* earthaccess.login returns or raises
LoginReturn(r) ==
    \E outcome \in ServerLoginOutcomes :
        LET a == authenticate(FALSE, outcome) IN
        /\ req[r].pc = "login"
        /\ MayRun(r)
        /\ logins' = logins \o a.login
        /\ IF a.exc # None
           THEN /\ Finish(r, HTTPException(500, a.exc.msg)
                                  @@ [step |-> "login", request |-> req[r].request,
                                      window |-> req[r].window,
                                      t_ref |-> req[r].t_ref])
                /\ UNCHANGED <<auth_initialized, auth_returned>>
           ELSE /\ auth_initialized' = a.flag
                /\ auth_returned' = TRUE
                /\ req' = [req EXCEPT ![r].pc = "fetch"]
                /\ last' = [op |-> "login", r |-> r]
                /\ UNCHANGED running
        /\ UNCHANGED <<cacheVars, misses>>

\* variant: the except block stores a grid of zeros for the window
LoadFailed_CachesZeros(r, exc) ==
    /\ Finish(r, HTTPException(500, wrap_error(exc).msg)
                    @@ [step |-> "fetch", request |-> req[r].request,
                        window |-> req[r].window, t_ref |-> req[r].t_ref])
    /\ PRECIP_CACHE' = set_cached_cube(PRECIP_CACHE, now, req[r].t_ref, req[r].window,
                                       [c \in Coords |-> 0], "unknown")
    /\ UNCHANGED now

\* load_imerg_cube raised: the except block of the window turns the error
\* into HTTPException 500; set_cached_cube, the next statement of the try
\* block, is not reached
LoadFailed(r, exc) ==
    /\ Finish(r, HTTPException(500, wrap_error(exc).msg)
                    @@ [step |-> "fetch", request |-> req[r].request,
                        window |-> req[r].window, t_ref |-> req[r].t_ref])
    /\ UNCHANGED cacheVars

\* the try block of load_imerg_cube(t_ref, window, use_early=True)
Fetch(r) ==
    \E env \in ServerEnvs :
        LET b == load_body(env, TRUE) IN
        /\ req[r].pc = "fetch"
        /\ MayRun(r)
        /\ IF b.exc # None
           THEN LoadFailed(r, b.exc)
           ELSE /\ req' = [req EXCEPT ![r] =
                      [pc |-> "store", data |-> b.data, source |-> b.source] @@ req[r]]
                /\ last' = [op |-> "fetch", r |-> r]
                /\ UNCHANGED <<running, cacheVars>>
        /\ UNCHANGED <<authVars, misses>>

\* set_cached_cube(t_ref, window, data, source_name), then the sampling
Store(r) ==
    LET q == req[r] IN
    /\ q.pc = "store"
    /\ MayRun(r)
    /\ PRECIP_CACHE' = set_cached_cube(PRECIP_CACHE, now, q.t_ref, q.window,
                                       q.data, q.source)
    /\ WindowDone(r, q.data, q.source, q.cached,
                  [step |-> "store", window |-> q.window,
                   key |-> get_cache_key(q.t_ref, q.window), repeat |-> q.repeat,
                   had_key |-> DictHas(PRECIP_CACHE, get_cache_key(q.t_ref, q.window)),
                   evicted |-> evicted_key(PRECIP_CACHE)])
    /\ UNCHANGED <<now, authVars, misses>>

\* time passes, between two handlers or while a handler waits for the archive
ClockAdvance ==
    /\ now < MaxTime
    /\ now' = now + 1
    /\ UNCHANGED <<PRECIP_CACHE, authVars, serverVars, last>>

NextServer ==
    \/ ClockAdvance
    \/ \E r \in Requests :
        \/ Begin(r)
        \/ Lookup(r)
        \/ LoginReturn(r)
        \/ Fetch(r)
        \/ Store(r)

SpecServer == Init /\ [][NextServer]_vars

\* ---- sanity of the model ----------------------------------------------
\* a dict holds at most one item per key
DictWellFormed ==
    \A i, j \in DOMAIN PRECIP_CACHE :
        PRECIP_CACHE[i].key = PRECIP_CACHE[j].key => i = j

\* ---- C1 ---------------------------------------------------------------
\* C1: after any sequence of store, lookup, clear and stats operations the
\* cache never holds more than CACHE_MAX_SIZE entries.
C1_SizeBound == Len(PRECIP_CACHE) <= CACHE_MAX_SIZE

\* a store into a full cache has just happened and evicted an entry
C1_Witness ==
    /\ last.op = "set"
    /\ last.evicted # << >>
    /\ ~last.had_key
    /\ Len(PRECIP_CACHE) = CACHE_MAX_SIZE

\* ---- C2 ---------------------------------------------------------------
\* C2: when a store of a new key would exceed CACHE_MAX_SIZE, exactly one
\* entry is removed, it has the smallest cached_at of the entries present
\* before the store, and every other entry is still there unchanged.
C2_StoreStep(d, d2, rec) ==
    LET key == get_cache_key(rec.t_ref, rec.hours) IN
    (~DictHas(d, key) /\ Len(d) + 1 > CACHE_MAX_SIZE) =>
        \E i \in DOMAIN d :
            /\ \A j \in DOMAIN d : d[i].cube.cached_at <= d[j].cube.cached_at
            /\ DictDel(d2, key) = DictDel(d, d[i].key)
            /\ DictHas(d2, key)

C2_EvictsOldest ==
    [][last'.op = "set" => C2_StoreStep(PRECIP_CACHE, PRECIP_CACHE', last')]_vars

\* a new key was stored into a full cache whose entries differ in age
C2_Witness ==
    /\ last.op = "set"
    /\ ~last.had_key
    /\ last.evicted # << >>
    /\ \E i \in DOMAIN PRECIP_CACHE :
           /\ PRECIP_CACHE[i].key # get_cache_key(last.t_ref, last.hours)
           /\ PRECIP_CACHE[i].cube.cached_at > 0
           /\ PRECIP_CACHE[i].cube.cached_at < now

\* ---- C3 ---------------------------------------------------------------
\* C3: a lookup at time t of a key whose entry was stored at time c returns
\* that entry when t <= c + TTL (t = c + TTL included) and returns nothing
\* when t > c + TTL.
C3_LookupStep(d, time, rec) ==
    LET key == get_cache_key(rec.t_ref, rec.hours) IN
    DictHas(d, key) =>
        LET cube == DictGet(d, key) IN
        /\ time <= cube.cached_at + CACHE_TTL_SECONDS => rec.ret = cube
        /\ time > cube.cached_at + CACHE_TTL_SECONDS => rec.ret = None

C3_TTLWindow ==
    [][last'.op = "get" => C3_LookupStep(PRECIP_CACHE, now, last')]_vars

\* a lookup at exactly c + TTL returned the entry
C3_Witness ==
    /\ last.op = "get"
    /\ last.ret # None
    /\ now = last.ret.cached_at + CACHE_TTL_SECONDS

\* ---- C4 ---------------------------------------------------------------
\* C4: a lookup(t, w) that follows store(t, w, grid, tier) immediately
\* returns exactly that grid and that source tier, whatever the cache held
\* before the store.
C4_RoundTrip ==
    (/\ last.op = "get"
     /\ last.prev # None
     /\ last.prev.t_ref = last.t_ref
     /\ last.prev.hours = last.hours)
    => /\ last.ret # None
       /\ last.ret.data = last.prev.data
       /\ last.ret.source = last.prev.source

\* the store went into a full cache, over an entry of the same key that
\* held another grid, and the lookup returned the new grid
C4_Witness ==
    /\ last.op = "get"
    /\ last.prev # None
    /\ last.prev.t_ref = last.t_ref
    /\ last.prev.hours = last.hours
    /\ last.prev.evicted # << >>
    /\ last.prev.had_key
    /\ last.ret # None
    /\ last.ret.data = last.prev.data
    /\ Len(PRECIP_CACHE) = CACHE_MAX_SIZE

\* ---- C8 ---------------------------------------------------------------
\* C8: a lookup(t2, w2) that follows store(t, w, ...) immediately returns
\* the entry just stored if and only if t2 is on the calendar day of t and
\* w2 = w.
SameCalendarDay(t1, t2) == t1.day = t2.day

C8_SameDaySameEntry ==
    (last.op = "get" /\ last.prev # None) =>
        ((/\ last.ret # None
          /\ last.ret.t_ref = last.prev.t_ref
          /\ last.ret.hours = last.prev.hours
          /\ last.ret.data = last.prev.data
          /\ last.ret.cached_at = now)
         <=> (/\ SameCalendarDay(last.t_ref, last.prev.t_ref)
              /\ last.hours = last.prev.hours))

\* a lookup for another reference time of the same day returned the entry
C8_Witness ==
    /\ last.op = "get"
    /\ last.prev # None
    /\ last.t_ref # last.prev.t_ref
    /\ SameCalendarDay(last.t_ref, last.prev.t_ref)
    /\ last.hours = last.prev.hours
    /\ last.ret # None
    /\ last.ret.t_ref = last.prev.t_ref

\* ---- C6 ---------------------------------------------------------------
Successes(ls) == Cardinality({i \in DOMAIN ls : ls[i] = "authenticated"})

\* C6: once a call of authenticate() has returned normally, no later call
\* performs the credential exchange, and over any sequence of calls at most
\* one exchange succeeds.
C6_AuthenticateOnce ==
    [][/\ auth_returned => logins' = logins
       /\ Successes(logins') <= 1]_vars

\* a call made after a successful exchange returned without logging in
C6_Witness ==
    /\ last.op = "authenticate"
    /\ last.login = << >>
    /\ last.exc = None
    /\ Successes(logins) = 1

\* ---- C9 ---------------------------------------------------------------
\* The error kinds of the accumulator as the docstring of load_imerg_cube
\* assigns them to exception classes (ValueError: no data available for the
\* time window; RuntimeError: data loading fails).
ErrorKind(exc) ==
    IF exc.type = "ValueError" THEN "NoDataAvailableError"
    ELSE IF exc.type = "RuntimeError" THEN "ExtractionError"
    ELSE exc.type

\* every search made returned, and returned no granule
NoGranulesFound(rec) ==
    /\ rec.result.searches # << >>
    /\ ~rec.late.raises /\ rec.late.granules = << >>
    /\ rec.use_early => (~rec.early.raises /\ rec.early.granules = << >>)

\* C9: load_imerg_cube with zero granules on both tiers fails with
\* NoDataAvailableError, an error kind other than ExtractionError, and with
\* use_early false and zero Late granules it fails without searching the
\* Early Run.
C9_NoDataError ==
    (last.op = "load" /\ NoGranulesFound(last)) =>
        /\ last.result.exc # None
        /\ ErrorKind(last.result.exc) = "NoDataAvailableError"
        /\ ~last.use_early => IMERG_PRODUCT_EARLY \notin Range(last.result.searches)

\* ---- C10 --------------------------------------------------------------
\* C10: the Early Run is searched only when the Late Run search returned
\* zero granules and use_early is true; the source returned is IMERG-Early
\* exactly when the granules opened came from the Early Run search and
\* IMERG-Late otherwise; no product is searched twice in one call.
C10_FallbackTier ==
    last.op = "load" =>
        LET r == last.result IN
        /\ IMERG_PRODUCT_EARLY \in Range(r.searches) =>
               (last.use_early /\ ~last.late.raises /\ last.late.granules = << >>)
        /\ Len(r.searches) = Cardinality(Range(r.searches))
        /\ r.exc = None =>
               /\ r.opened # << >>
               /\ r.source \in Sources
               /\ r.source = IMERG_EARLY <=>
                      (/\ r.opened = last.early.granules
                       /\ \A i \in DOMAIN r.opened :
                              r.opened[i].product = IMERG_PRODUCT_EARLY)
               /\ r.source = IMERG_LATE <=>
                      (/\ r.opened = last.late.granules
                       /\ \A i \in DOMAIN r.opened :
                              r.opened[i].product = IMERG_PRODUCT_LATE)

\* a call fell back to the Early Run and returned its cube
C10_Witness ==
    /\ last.op = "load"
    /\ last.result.exc = None
    /\ last.result.searches = <<IMERG_PRODUCT_LATE, IMERG_PRODUCT_EARLY>>
    /\ last.result.source = IMERG_EARLY

\* ---- C11 --------------------------------------------------------------
\* a granule contributes when it can be opened and carries one of the two
\* precipitation variables
Contributes(g) == g.readable /\ g.var \in {"precipitationCal", "precipitation"}

\* C11: of the granules opened, those that cannot be read or carry no
\* precipitation variable are skipped: when at least one granule contributes
\* the call returns the grid accumulated from the contributing granules
\* alone, and when none contributes it fails with ExtractionError.
C11_SkipBadGranules ==
    (last.op = "load" /\ last.result.opened # << >> /\ last.open_returns_files) =>
        LET r == last.result
            good == SelectSeq(r.opened, Contributes)
        IN  IF good # << >>
            THEN /\ r.exc = None
                 /\ r.data = accumulate_precip(good, last.concat_raises).data
            ELSE /\ r.exc # None
                 /\ ErrorKind(r.exc) = "ExtractionError"

\* a grid came out of a list of granules of which one was skipped
C11_Witness ==
    /\ last.op = "load"
    /\ last.result.exc = None
    /\ \E i \in DOMAIN last.result.opened : ~Contributes(last.result.opened[i])
    /\ \E c \in Coords : last.result.data[c] > 0

\* ---- C12 --------------------------------------------------------------
\* the sum over the granules of rate * 0.5 h at a coordinate, in tenths of
\* a millimetre, a missing rate counting as 0
RECURSIVE TotalAmount(_, _)
TotalAmount(granules, c) ==
    IF granules = << >> THEN 0
    ELSE (IF c \in Head(granules).rate.nan THEN 0 ELSE Head(granules).rate.v[c] * 5)
         + TotalAmount(Tail(granules), c)

\* C12: the accumulated value at each grid coordinate is the sum over the
\* contributing granules of rate * 0.5 h, missing values counted as 0
\* (rates 2.0 and 4.0 mm/hr give 3.0 mm).
C12_SumOfAmounts ==
    (last.op = "load" /\ last.result.exc = None) =>
        \A c \in Coords :
            last.result.data[c] =
                TotalAmount(SelectSeq(last.result.opened, Contributes), c)

\* ---- C13 --------------------------------------------------------------
AllZero(grid) == DOMAIN grid = Coords /\ \A c \in Coords : grid[c] = 0
AllValid(h3_indices) == \A i \in DOMAIN h3_indices : h3_is_valid(h3_indices[i])

\* C13 as claimed: sampling an all-zero grid at a list of N valid indices,
\* repeated indices included, returns a mapping with N entries, all 0.0.
C13_OneEntryPerListItem ==
    (last.op = "sample" /\ AllZero(last.precip_data) /\ AllValid(last.h3_indices)) =>
        /\ Cardinality(DOMAIN last.ret) = Len(last.h3_indices)
        /\ \A h \in DOMAIN last.ret : last.ret[h] = 0

\* C13 as amended: sampling an all-zero grid at a list of N valid indices
\* returns a mapping with one entry for each distinct index of the list,
\* hence N entries when the indices are distinct, and every entry is 0.0.
C13_OneEntryPerDistinctCell ==
    (last.op = "sample" /\ AllZero(last.precip_data) /\ AllValid(last.h3_indices)) =>
        /\ \A i \in DOMAIN last.h3_indices : last.h3_indices[i] \in DOMAIN last.ret
        /\ \A h \in DOMAIN last.ret : \E i \in DOMAIN last.h3_indices : last.h3_indices[i] = h
        /\ (\A i, j \in DOMAIN last.h3_indices :
                last.h3_indices[i] = last.h3_indices[j] => i = j)
           => Cardinality(DOMAIN last.ret) = Len(last.h3_indices)
        /\ \A h \in DOMAIN last.ret : last.ret[h] = 0

\* an all-zero grid was sampled at a list of MaxCells valid indices, one of
\* them repeated
C13_Witness ==
    /\ last.op = "sample"
    /\ AllZero(last.precip_data)
    /\ AllValid(last.h3_indices)
    /\ Len(last.h3_indices) = MaxCells
    /\ Cardinality(DOMAIN last.ret) = MaxCells - 1

\* ---- C14 --------------------------------------------------------------
\* the value of the cell cannot be extracted from the grid: the index has no
\* centroid, the grid has no points, or the centroid is outside the
\* rectangle the grid covers
ExtractionFails(grid, h) ==
    \/ ~h3_is_valid(h)
    \/ DOMAIN grid = {}
    \/ h3_to_geo(h) \notin DOMAIN grid

\* C14: a cell whose value cannot be extracted (for one, a centroid outside
\* the grid coverage) gets 0.0, the other cells are still sampled and the
\* result has an entry for every index of the list.
C14_FailedCellIsZero ==
    last.op = "sample" =>
        /\ \A i \in DOMAIN last.h3_indices : last.h3_indices[i] \in DOMAIN last.ret
        /\ \A h \in DOMAIN last.ret :
               ExtractionFails(last.precip_data, h) => last.ret[h] = 0

\* ---- C15 --------------------------------------------------------------
\* the positions of the well-formed indices of a list
ValidPositions(h3_indices) == {i \in DOMAIN h3_indices : h3_is_valid(h3_indices[i])}

\* the k-th smallest element of a set of positions
KthPosition(pos, k) == CHOOSE i \in pos : Cardinality({j \in pos : j < i}) = k - 1

\* C15: validate returns the well-formed indices of its input, all of them
\* and nothing else, in the order of the input, and raises exactly when the
\* input has no well-formed index.
C15_ValidateFilters ==
    last.op = "validate" =>
        LET pos == ValidPositions(last.h3_indices) IN
        /\ last.ret.exc # None <=> pos = {}
        /\ last.ret.exc = None =>
               /\ Len(last.ret.valid) = Cardinality(pos)
               /\ \A k \in DOMAIN last.ret.valid :
                      last.ret.valid[k] = last.h3_indices[KthPosition(pos, k)]

\* a list with one malformed index between well-formed ones was validated
C15_Witness ==
    /\ last.op = "validate"
    /\ Len(last.h3_indices) = MaxCells
    /\ ~h3_is_valid(last.h3_indices[2])
    /\ last.ret.exc = None
    /\ Len(last.ret.valid) = MaxCells - 1

\* ---- C16 --------------------------------------------------------------
\* C16: a request that asks for both windows has each of them looked up in
\* the cache (and accumulated on a miss) even when the earlier window has
\* failed, and the request fails when one of its windows has failed.
C16_EveryWindowAttempted ==
    (last.op = "response" /\ last.step # "validate") =>
        /\ last.request.hours_72 => last.window = 72
        /\ last.step \in {"login", "fetch"} => last.status = 500

\* ---- C17 --------------------------------------------------------------
\* C17: a response with status 200 has one cell record for each index of
\* the request that is well-formed, in the order of the request, none for
\* the other indices, and a record has a value for the 24h (72h) window
\* exactly when the request asked for that window.
C17_OneRecordPerValidCell ==
    (last.op = "response" /\ last.status = 200) =>
        LET pos == ValidPositions(last.request.h3_indices) IN
        /\ Len(last.cells) = Cardinality(pos)
        /\ \A k \in DOMAIN last.cells :
               /\ last.cells[k].h3_index = last.request.h3_indices[KthPosition(pos, k)]
               /\ last.cells[k].rain24h_mm # << >> <=> last.request.hours_24
               /\ last.cells[k].rain72h_mm # << >> <=> last.request.hours_72

\* a request with a malformed index that asked for the 72h window only was
\* answered with the two records of its well-formed indices
C17_Witness ==
    /\ last.op = "response"
    /\ last.status = 200
    /\ ~last.request.hours_24 /\ last.request.hours_72
    /\ Len(last.request.h3_indices) = 3
    /\ Len(last.cells) = 2
    /\ last.cells[2].rain72h_mm # << >>

\* ---- C18 --------------------------------------------------------------
\* the cache holds an entry for the calendar day of t_ref and the window
\* that is no older than the TTL
CacheHolds(t_ref, hours) ==
    \E i \in DOMAIN PRECIP_CACHE :
        /\ PRECIP_CACHE[i].key = <<t_ref.day, hours>>
        /\ now - PRECIP_CACHE[i].cube.cached_at <= CACHE_TTL_SECONDS

\* C18: when the lookup of a window finds a valid entry (one stored by any
\* earlier request for the same calendar day and window, within the TTL),
\* the handler goes on to the next window or returns: it does not log in,
\* search or open granules for that window, and leaves the cache as it is.
C18_HitSkipsUpstream ==
    [][\A r \in Requests :
          (/\ req[r].pc = "lookup"
           /\ req'[r] # req[r]
           /\ CacheHolds(req[r].t_ref, req[r].window))
          => /\ PRECIP_CACHE' = PRECIP_CACHE
             /\ logins' = logins
             /\ auth_initialized' = auth_initialized
             /\ misses' = misses
             /\ \/ req'[r].pc = "done"
                \/ /\ req'[r].pc = "lookup"
                   /\ req[r].window = 24 /\ req'[r].window = 72
                   /\ req'[r].cached]_vars

\* the second request was served from an entry that another request, with
\* another reference time of the same day, had stored earlier
C18_Witness ==
    /\ last.op = "response"
    /\ last.status = 200
    /\ last.step = "hit"
    /\ last.r = 2
    /\ last.cached
    /\ \E i \in DOMAIN PRECIP_CACHE :
           /\ PRECIP_CACHE[i].key = get_cache_key(last.t_ref, last.window)
           /\ PRECIP_CACHE[i].cube.t_ref # last.t_ref
           /\ PRECIP_CACHE[i].cube.cached_at < now

\* ---- C19 --------------------------------------------------------------
\* the entry is older than the TTL
Stale(cube) == now > cube.cached_at + CACHE_TTL_SECONDS

\* C19: a lookup of a key whose entry is expired returns nothing and
\* removes that entry and no other; any other lookup leaves the cache as it
\* is, so that the expired entries of other keys stay.
C19_LazyExpiry ==
    [][last'.op = "get" =>
          LET key == get_cache_key(last'.t_ref, last'.hours)
              stale == \E i \in DOMAIN PRECIP_CACHE :
                           PRECIP_CACHE[i].key = key /\ Stale(PRECIP_CACHE[i].cube)
          IN  IF stale
              THEN /\ last'.ret = None
                   /\ PRECIP_CACHE' = SelectSeq(PRECIP_CACHE, LAMBDA e : e.key # key)
                   /\ Len(PRECIP_CACHE') = Len(PRECIP_CACHE) - 1
              ELSE PRECIP_CACHE' = PRECIP_CACHE]_vars

\* a lookup has removed the expired entry of its key while the expired
\* entry of another key is still in the cache
C19_Witness ==
    /\ last.op = "get"
    /\ last.had_key
    /\ last.ret = None
    /\ ~DictHas(PRECIP_CACHE, get_cache_key(last.t_ref, last.hours))
    /\ \E i \in DOMAIN PRECIP_CACHE : Stale(PRECIP_CACHE[i].cube)

\* ---- C20 --------------------------------------------------------------
\* C20: a store evicts only when its key is new and the insert would
\* exceed CACHE_MAX_SIZE; a store under a key already present replaces the
\* entry of that key, removes no entry of another key and leaves the number
\* of entries as it was, also when the cache is full.
C20_OverwriteEvictsNothing ==
    [][last'.op = "set" =>
          LET key == get_cache_key(last'.t_ref, last'.hours) IN
          /\ last'.evicted # << >> =>
                 (~DictHas(PRECIP_CACHE, key) /\ Len(PRECIP_CACHE) + 1 > CACHE_MAX_SIZE)
          /\ DictHas(PRECIP_CACHE, key) =>
                 /\ Len(PRECIP_CACHE') = Len(PRECIP_CACHE)
                 /\ DictHas(PRECIP_CACHE', key)
                 /\ \A i \in DOMAIN PRECIP_CACHE :
                        PRECIP_CACHE[i].key # key =>
                            \E j \in DOMAIN PRECIP_CACHE' :
                                PRECIP_CACHE'[j] = PRECIP_CACHE[i]]_vars

\* ---- C22 --------------------------------------------------------------
\* C22: get_cache_stats leaves the cache as it is, and in its snapshot
\* total_entries is the number of entries, expired_entries the number of
\* entries with now - cached_at > TTL, total_entries = expired_entries +
\* valid_entries and total_entries <= max_size.
C22_StatsSnapshot ==
    [][last'.op = "stats" =>
          LET st == last'.ret
              old == {i \in DOMAIN PRECIP_CACHE :
                         now - PRECIP_CACHE[i].cube.cached_at > CACHE_TTL_SECONDS}
          IN  /\ PRECIP_CACHE' = PRECIP_CACHE
              /\ st.total_entries = Len(PRECIP_CACHE)
              /\ st.expired_entries = Cardinality(old)
              /\ st.total_entries = st.expired_entries + st.valid_entries
              /\ st.total_entries <= st.max_size]_vars

\* the statistics of a full cache with an expired and a valid entry
C22_Witness ==
    /\ last.op = "stats"
    /\ last.ret.expired_entries >= 1
    /\ last.ret.valid_entries >= 1
    /\ last.ret.total_entries = CACHE_MAX_SIZE
    /\ Len(PRECIP_CACHE) = CACHE_MAX_SIZE

\* ---- C27 --------------------------------------------------------------
\* C27: a lookup that returns an entry leaves the cache as it is, the
\* cached_at of the entry included; when the entry read is the oldest of a
\* full cache, the store that follows the lookup evicts it.
C27_ReadDoesNotRefresh ==
    [][/\ (last'.op = "get" /\ last'.ret # None) =>
              /\ PRECIP_CACHE' = PRECIP_CACHE
              /\ \E i \in DOMAIN PRECIP_CACHE' : PRECIP_CACHE'[i].cube = last'.ret
       /\ (/\ last.op = "get" /\ last.ret # None
           /\ last'.op = "set" /\ last'.evicted # << >>
           /\ \A i \in DOMAIN PRECIP_CACHE :
                  \/ PRECIP_CACHE[i].cube = last.ret
                  \/ PRECIP_CACHE[i].cube.cached_at > last.ret.cached_at)
          => last'.evicted = <<get_cache_key(last.t_ref, last.hours)>>]_vars

\* the oldest entry of a full cache was read some time after it was stored
C27_Witness ==
    /\ last.op = "get"
    /\ last.ret # None
    /\ last.ret.cached_at < now
    /\ Len(PRECIP_CACHE) = CACHE_MAX_SIZE
    /\ \A i \in DOMAIN PRECIP_CACHE :
           \/ PRECIP_CACHE[i].cube = last.ret
           \/ PRECIP_CACHE[i].cube.cached_at > last.ret.cached_at

\* ---- C30 --------------------------------------------------------------
\* C30: the clock never goes back, and when a store evicts while some entry
\* of the cache is expired, the entry evicted is an expired one.
C30_EvictsExpiredFirst ==
    [][/\ now' >= now
       /\ (last'.op = "set" /\ last'.evicted # << >>) =>
              ((\E i \in DOMAIN PRECIP_CACHE : Stale(PRECIP_CACHE[i].cube))
               => \E i \in DOMAIN PRECIP_CACHE :
                      /\ PRECIP_CACHE[i].key = last'.evicted[1]
                      /\ Stale(PRECIP_CACHE[i].cube))]_vars

\* an expired entry was evicted and an entry that is not expired, stored
\* before this store, is still in the cache
C30_Witness ==
    /\ last.op = "set"
    /\ last.evicted_at # << >>
    /\ now > last.evicted_at[1] + CACHE_TTL_SECONDS
    /\ ~last.had_key
    /\ \E i \in DOMAIN PRECIP_CACHE :
           /\ PRECIP_CACHE[i].key # get_cache_key(last.t_ref, last.hours)
           /\ ~Stale(PRECIP_CACHE[i].cube)

\* ---- C24 --------------------------------------------------------------
\* C24: sample_precip_for_h3 given a list with a malformed cell id raises,
\* before any cell is sampled, and returns no mapping.
C24_MalformedIdFailsBatch ==
    (last.op = "sample" /\ ~AllValid(last.h3_indices)) =>
        /\ last.exc # None
        /\ DOMAIN last.ret = {}

\* ---- C23 --------------------------------------------------------------
\* the rates of the contributing granules at a coordinate are all
\* non-negative or missing
RatesNonNegative(granules, c) ==
    \A i \in DOMAIN granules :
        Contributes(granules[i]) =>
            (c \in granules[i].rate.nan \/ granules[i].rate.v[c] >= 0)

\* C23 as stated: every value of every grid that the accumulation returns
\* is non-negative, whatever the granules hold.
C23_GridNonNegative ==
    (last.op = "load" /\ last.result.exc = None) =>
        \A c \in Coords : last.result.data[c] >= 0

\* C23: every value of an accumulated grid is non-negative where the rates
\* of the contributing granules are non-negative or missing, and every
\* value sampled from a grid is non-negative.
C23_NonNegativeSamples ==
    /\ (last.op = "load" /\ last.result.exc = None) =>
           \A c \in Coords :
               RatesNonNegative(last.result.opened, c) => last.result.data[c] >= 0
    /\ last.op = "point" => last.ret >= 0

\* a point was sampled where the accumulated grid is negative
C23_Witness ==
    /\ last.op = "point"
    /\ last.data[sel_nearest(last.point)] < 0
    /\ last.ret = 0

\* ---- C28 --------------------------------------------------------------
\* C28: a call of authenticate() whose credential exchange fails raises
\* and leaves the flag unset, so that the next call performs the exchange
\* again; the flag is set only by an exchange that succeeded.
C28_FailedExchangeLeavesUnset ==
    /\ (last.op = "authenticate" /\ last.login # << >>
          /\ last.login[1] # "authenticated") =>
           /\ last.exc # None
           /\ ~auth_initialized
    /\ auth_initialized => Successes(logins) >= 1

\* ---- C21 --------------------------------------------------------------
\* C21: a request whose list holds no valid cell id is answered in its
\* first step with the 400 of the validation; that step leaves the cache,
\* the authentication state and the record of lookups as they were.
C21_NoValidIdFailsFirst ==
    [][\A r \in Requests :
          (req[r].pc = "queued" /\ req'[r].pc # "queued") =>
              LET h3_indices == IF req'[r].pc = "done"
                                THEN last'.request.h3_indices
                                ELSE req'[r].request.h3_indices
              IN  (\A i \in DOMAIN h3_indices : ~h3_is_valid(h3_indices[i])) =>
                      /\ req'[r].pc = "done"
                      /\ last'.status = 400
                      /\ last'.step = "validate"
                      /\ PRECIP_CACHE' = PRECIP_CACHE
                      /\ <<auth_initialized, logins, auth_returned>>' = authVars
                      /\ misses' = misses]_vars

\* a request without a valid id was refused after an earlier request had
\* authenticated and filled the cache
C21_Witness ==
    /\ last.op = "response"
    /\ last.status = 400
    /\ last.step = "validate"
    /\ \A i \in DOMAIN last.request.h3_indices :
           ~h3_is_valid(last.request.h3_indices[i])
    /\ last.r >= 2
    /\ PRECIP_CACHE # << >>
    /\ auth_initialized

C26_CachedOfLastWindow ==
    (last.op = "response" /\ last.status = 200 /\ last.window # 0) =>
        (last.cached <=> last.window \in last.hits)

\* C26: cached is true exactly when some window of the request was served
\* from the cache.
C26_CachedOfAnyWindow ==
    (last.op = "response" /\ last.status = 200) =>
        (last.cached <=> last.hits # {})

\* the 24h window was served from the cache, the 72h window from the archive
C26_Witness ==
    /\ last.op = "response"
    /\ last.status = 200
    /\ last.window = 72
    /\ last.step = "store"
    /\ last.hits = {24}
    /\ last.cached

\* ---- C29 --------------------------------------------------------------
\* C29: the step in which the authentication or the load of a window fails
\* ends the request with an error and leaves the cache as it was, without
\* an entry under the key of that window; an entry appears under a key
\* only in the store step of a request whose load of that key succeeded.
C29_FailureStoresNothing ==
    [][\A r \in Requests :
          /\ (req[r].pc \in {"login", "fetch"} /\ req'[r].pc = "done") =>
                 /\ last'.status = 500
                 /\ PRECIP_CACHE' = PRECIP_CACHE
                 /\ ~DictHas(PRECIP_CACHE', get_cache_key(req[r].t_ref, req[r].window))
          /\ (req[r].pc \in {"lookup", "login", "fetch", "store"} /\ req'[r] # req[r]) =>
                 \A k \in DictKeys(PRECIP_CACHE') \ DictKeys(PRECIP_CACHE) :
                     /\ req[r].pc = "store"
                     /\ k = get_cache_key(req[r].t_ref, req[r].window)]_vars

\* the load of the 72h window failed after the 24h cube was stored
C29_Witness ==
    /\ last.op = "response"
    /\ last.status = 500
    /\ last.step = "fetch"
    /\ last.window = 72
    /\ DictHas(PRECIP_CACHE, get_cache_key(last.t_ref, 24))
    /\ ~DictHas(PRECIP_CACHE, get_cache_key(last.t_ref, 72))

\* ---- C5 ---------------------------------------------------------------
\* the handler of r performs its set_cached_cube in this step
StoreStep(r) == req[r].pc = "store" /\ req'[r].pc # "store"

\* C5: whatever the order in which the handlers of concurrent requests run,
\* the cache never holds more than CACHE_MAX_SIZE entries, and a store
\* removes no more entries of other keys than the number by which the
\* insert would exceed the bound.
C5_ConcurrentMisses ==
    [][/\ Len(PRECIP_CACHE') <= CACHE_MAX_SIZE
       /\ \A r \in Requests : StoreStep(r) =>
              LET key == get_cache_key(req[r].t_ref, req[r].window)
                  excess == Cardinality(DictKeys(PRECIP_CACHE) \cup {key}) - CACHE_MAX_SIZE
                  removed == DictKeys(PRECIP_CACHE) \ DictKeys(PRECIP_CACHE')
              IN  /\ Cardinality(removed) <= (IF excess > 0 THEN excess ELSE 0)
                  /\ key \in DictKeys(PRECIP_CACHE')]_vars

\* a request whose lookup missed on a key that an earlier request of the
\* burst had missed on too has stored its cube into a full cache
C5_Witness ==
    /\ last.op \in {"window", "response"}
    /\ last.step = "store"
    /\ last.repeat
    /\ last.evicted # << >>
    /\ Len(PRECIP_CACHE) = CACHE_MAX_SIZE

\* ---- C7 ---------------------------------------------------------------
PastAuthentication(r) == req[r].pc \in {"fetch", "store"}

\* no caller is past authenticate() before the first exchange has returned
NoOvertaking == logins = << >> => \A r \in Requests : ~PastAuthentication(r)

\* C7 as claimed: among concurrent first callers the credential exchange is
\* performed at most once, and no caller proceeds past authentication
\* before the first caller's exchange has completed or failed.
C7_ExchangeAtMostOnce ==
    /\ Len(logins) + InFlightLogins <= 1
    /\ NoOvertaking

\* C7 as amended: at most one exchange is in flight at a time and at most
\* one returns normally; a caller performs the exchange again only when
\* every earlier exchange has failed; no caller proceeds past
\* authentication before the first caller's exchange has completed or
\* failed, nor while an exchange is in flight.
C7_ExchangeOnceUnlessFailed ==
    /\ InFlightLogins <= 1
    /\ Cardinality({i \in DOMAIN logins : logins[i] # "raises"}) <= 1
    /\ InFlightLogins = 1 => \A i \in DOMAIN logins : logins[i] = "raises"
    /\ NoOvertaking
    /\ \A r \in Requests : PastAuthentication(r) =>
           /\ InFlightLogins = 0
           /\ logins[Len(logins)] # "raises"

\* the second request of the burst, arrived before the first one's
\* exchange, went past authenticate() without an exchange of its own
C7_Witness ==
    /\ last.op = "miss"
    /\ last.r = 2
    /\ ~last.exchange
    /\ logins = <<"authenticated">>
    /\ PastAuthentication(2)
====
